---- MODULE Spec2Model ----
(***************************************************************************)
(* SectionStack (src/lib/layout/SectionStack.ts): the section layout       *)
(* engine of timeviz.  A configuration maps section ids to                 *)
(* {height?, heightRel?, from}; the constructor validates it, detects      *)
(* dependency cycles, checks that references exist, and computes           *)
(* {y, height} per section in topological order.  Queries read the         *)
(* computed map.                                                           *)
(*                                                                         *)
(* JavaScript values are modelled as follows.  A section is a record       *)
(* [obj, hasHeight, height, hasRel, heightRel, from]; obj = FALSE is a     *)
(* section value that is not an object; hasHeight = FALSE is               *)
(* height === undefined; hasRel = FALSE is an absent (or otherwise falsy)  *)
(* heightRel; from is Null, Undef, the empty string or an id.  A property  *)
(* lookup obj[id] with a string id finds the own property id and           *)
(* otherwise whatever Object.prototype defines under that name (ProtoIds), *)
(* which is a function and therefore truthy.  The own properties of an     *)
(* object are enumerated with the integer-like keys (IndexIds) first.      *)
(* Numbers are integer-valued doubles with a scaled-down significand, and  *)
(* NaN.  The constructor is modelled in steps of one check each (Spec) and *)
(* with the two depth-first traversals followed call by call (SpecSteps).  *)
(***************************************************************************)
EXTENDS Integers, Sequences, FiniteSets, TLC

\* ---------------------------------------------------------------- bounds
MaxSize   == 3   \* size of a configuration: references + 2 * rule violations
MaxHeight == 1   \* literal heights are -1..MaxHeight
MaxGetAll == 2   \* getAll() results a caller holds at once
MaxClientSize    == 1   \* MaxSize of the configurations whose results callers write to
MaxWrites        == 2   \* writes callers make to the objects getAll() returned
MaxQuerySize     == 1   \* MaxSize of the configurations queried together with getAll()
MaxOwnerSize     == 1   \* MaxSize of the configurations their owner rewrites
MaxOwnerWrites   == 1   \* writes the owner makes to the mapping after construction
MaxValidationSize == 4  \* MaxSize of the configurations whose validation errors are compared
MaxNumbersSize   == 3   \* MaxSize of the configurations with heights of different magnitude
MaxHeightsSize   == 3   \* MaxSize of the configurations over every kind of height value
MaxStepsSize     == 2   \* MaxSize of the configurations whose construction is followed call by call
MaxDepth         == 5   \* nested calls of visit() the call stack has room for

\* ------------------------------------------------------------ value space
Null  == "<null>"
Undef == "<undefined>"
Blank == ""

SectionIds == <<"a", "b", "c">>
ProtoIds   == {"toString"}
KeyIds     == {SectionIds[i] : i \in 1..Len(SectionIds)}
RefIds     == KeyIds \cup ProtoIds
IndexIds   == {"0"}

Range(s) == {s[i] : i \in 1..Len(s)}

SeqsOfLen(S, n) == [1..n -> S]

Max(x, y) == IF x >= y THEN x ELSE y

EmptyMap == [x \in {} |-> x]

\* a section value that is falsy or whose typeof is not 'object'
NotObject == [obj |-> FALSE, hasHeight |-> FALSE, height |-> 0,
              hasRel |-> FALSE, heightRel |-> <<>>, from |-> Undef]

\* what sections[id] yields for a name inherited from Object.prototype:
\* a function, which has no height, heightRel or from property
ProtoFunction == [obj |-> FALSE, hasHeight |-> FALSE, height |-> 0,
                  hasRel |-> FALSE, heightRel |-> <<>>, from |-> Undef]

SectionConfig(h, r, f) ==
    [obj |-> TRUE, hasHeight |-> h # <<>>, height |-> IF h # <<>> THEN h[1] ELSE 0,
     hasRel |-> r # <<>>, heightRel |-> IF r # <<>> THEN r[1] ELSE <<>>, from |-> f]

\* the section values the model draws from: every combination of
\* height in {absent, -1, 0..MaxHeight}, heightRel in {absent, lists of up to
\* n ids or blanks}, from in {null, "", id}, plus one non-object; the ids
\* referred to are taken from ids
HeightChoices == {<<>>} \cup {<<h>> : h \in (-1)..MaxHeight}
RelChoices(n, ids) == {<<>>} \cup {<<r>> : r \in UNION {SeqsOfLen(ids \cup {Blank}, k) : k \in 0..n}}
FromChoices(ids)   == {Null, Blank} \cup ids

AllSections(n, ids) ==
    {NotObject} \cup
    {SectionConfig(h, r, f) : h \in HeightChoices, r \in RelChoices(n, ids), f \in FromChoices(ids)}

\* size of a section: one for each id it refers to, two for each validation
\* rule it breaks
Card01(b) == IF b THEN 1 ELSE 0

Size(s) ==
    IF ~s.obj THEN 2
    ELSE Cardinality({i \in 1..Len(s.heightRel) : s.heightRel[i] # Blank})
         + Card01(s.from \notin {Null, Blank})
         + 2 * ( Cardinality({i \in 1..Len(s.heightRel) : s.heightRel[i] = Blank})
                 + Card01(s.from = Blank)
                 + Card01(s.hasHeight = s.hasRel)
                 + Card01(s.hasHeight /\ s.height < 0)
                 + Card01(s.hasRel /\ s.heightRel = <<>>) )

\* a list of more than k entries has size above k
SectionsUpTo(k, ids) == {s \in AllSections(k, ids) : Size(s) <= k}

RECURSIVE TotalSize(_)
TotalSize(e) == IF e = <<>> THEN 0 ELSE Size(e[Len(e)].section) + TotalSize(SubSeq(e, 1, Len(e) - 1))

\* the constructor's argument before any section is put in it: undefined/null,
\* a non-object, or an empty mapping.  entries are the own properties in the
\* order JavaScript enumerates them; inserted are the ids in the order the
\* caller put them in.
Configurations ==
    {[type |-> "undefined", entries |-> <<>>, inserted |-> <<>>],
     [type |-> "primitive", entries |-> <<>>, inserted |-> <<>>],
     [type |-> "object", entries |-> <<>>, inserted |-> <<>>]}

\* --------------------------------------------------------------- errors
\* SectionStackError and its subclasses: name, sectionId (Undef when the
\* constructor gets none), the message's text, and the ids the message names
NoError == [name |-> "none", sectionId |-> Undef, message |-> "", chain |-> <<>>, names |-> <<>>]

SectionStackError(message, names) ==
    [name |-> "SectionStackError", sectionId |-> Undef, message |-> message,
     chain |-> <<>>, names |-> names]

SectionValidationError(message, sectionId) ==
    [name |-> "SectionValidationError", sectionId |-> sectionId, message |-> message,
     chain |-> <<>>, names |-> <<sectionId>>]

\* mutant: the chain is cut down to the cycle, the way to it is dropped
CircularDependencyError_CycleOnly(sectionId, dependencyChain) ==
    LET first == CHOOSE i \in 1..Len(dependencyChain) :
                    /\ dependencyChain[i] = sectionId
                    /\ \A j \in 1..(i - 1) : dependencyChain[j] # sectionId
        cycle == SubSeq(dependencyChain, first, Len(dependencyChain))
    IN  [name |-> "CircularDependencyError", sectionId |-> sectionId,
         message |-> "Circular dependency detected", chain |-> cycle,
         names |-> Append(cycle, sectionId)]

CircularDependencyError(sectionId, dependencyChain) ==
    [name |-> "CircularDependencyError", sectionId |-> sectionId,
     message |-> "Circular dependency detected", chain |-> dependencyChain,
     names |-> Append(dependencyChain, sectionId)]

MissingSectionError(referencedBy, missingSectionId) ==
    [name |-> "MissingSectionError", sectionId |-> referencedBy,
     message |-> "references missing section", chain |-> <<>>,
     names |-> <<referencedBy, missingSectionId>>]

\* ---------------------------------------------------------------- numbers
\* NaN stands for the number NaN and for what arithmetic on undefined gives
NaN == -1000

\* x < y on numbers: false when either side is NaN
LessThan(x, y) == x # NaN /\ y # NaN /\ x < y

\* Math.max(x, y): NaN when either argument is NaN
MathMax(x, y) == IF x = NaN \/ y = NaN THEN NaN ELSE Max(x, y)

\* ------------------------------------------------------ property lookup
Keys(entries) == {entries[i].id : i \in 1..Len(entries)}

\* Object.keys(obj) / Object.entries(obj): the own keys in property order,
\* which is ascending numeric order for integer-like keys ("0", "1", ...)
\* followed by the other keys in insertion order
ObjectKeys(entries) == [i \in 1..Len(entries) |-> entries[i].id]

IndexOf(entries, id) == CHOOSE i \in 1..Len(entries) : entries[i].id = id

\* this.sections[id]: the own property, else the inherited one.  The code
\* reads properties of this value only for ids whose lookup is truthy (own
\* keys and inherited names): for any other id the lookup is undefined and
\* is not dereferenced.
SectionAt(entries, id) ==
    IF id \in Keys(entries) THEN entries[IndexOf(entries, id)].section ELSE ProtoFunction

\* the truthiness of this.sections[id]
HasSectionConfig(entries, id) ==
    \/ id \in Keys(entries) /\ SectionAt(entries, id).obj
    \/ id \notin Keys(entries) /\ id \in ProtoIds

\* the truthiness of section.from: null, undefined and '' are falsy
Truthy(str) == str \notin {Null, Undef, Blank}

\* ------------------------------------------------------- validateSection
\* mutant: a section with both height and heightRel is let through
validateSection_NoBothCheck(sectionId, section) ==
    IF ~section.obj
    THEN SectionValidationError("Section configuration must be an object", sectionId)
    ELSE IF ~section.hasHeight /\ ~section.hasRel
    THEN SectionValidationError("Section must have either height or heightRel property", sectionId)
    ELSE IF section.hasHeight /\ LessThan(section.height, 0)
    THEN SectionValidationError("Height must be a non-negative number", sectionId)
    ELSE IF section.hasRel /\ section.heightRel = <<>>
    THEN SectionValidationError("heightRel must be a non-empty array", sectionId)
    ELSE IF section.hasRel /\ \E i \in 1..Len(section.heightRel) : section.heightRel[i] = Blank
    THEN SectionValidationError("heightRel entries must be non-empty strings", sectionId)
    ELSE IF section.from # Null /\ (section.from = Undef \/ section.from = Blank)
    THEN SectionValidationError("from property must be null or a non-empty string", sectionId)
    ELSE NoError

\* mutant: the from rule is applied before the rules on height and heightRel
validateSection_FromFirst(sectionId, section) ==
    IF ~section.obj
    THEN SectionValidationError("Section configuration must be an object", sectionId)
    ELSE IF section.from # Null /\ (section.from = Undef \/ section.from = Blank)
    THEN SectionValidationError("from property must be null or a non-empty string", sectionId)
    ELSE IF ~section.hasHeight /\ ~section.hasRel
    THEN SectionValidationError("Section must have either height or heightRel property", sectionId)
    ELSE IF section.hasHeight /\ section.hasRel
    THEN SectionValidationError("Section cannot have both height and heightRel properties", sectionId)
    ELSE IF section.hasHeight /\ LessThan(section.height, 0)
    THEN SectionValidationError("Height must be a non-negative number", sectionId)
    ELSE IF section.hasRel /\ section.heightRel = <<>>
    THEN SectionValidationError("heightRel must be a non-empty array", sectionId)
    ELSE IF section.hasRel /\ \E i \in 1..Len(section.heightRel) : section.heightRel[i] = Blank
    THEN SectionValidationError("heightRel entries must be non-empty strings", sectionId)
    ELSE NoError

\* mutant: a negative height is let through
validateSection_NoNegativeCheck(sectionId, section) ==
    IF ~section.obj
    THEN SectionValidationError("Section configuration must be an object", sectionId)
    ELSE IF ~section.hasHeight /\ ~section.hasRel
    THEN SectionValidationError("Section must have either height or heightRel property", sectionId)
    ELSE IF section.hasHeight /\ section.hasRel
    THEN SectionValidationError("Section cannot have both height and heightRel properties", sectionId)
    ELSE IF section.hasRel /\ section.heightRel = <<>>
    THEN SectionValidationError("heightRel must be a non-empty array", sectionId)
    ELSE IF section.hasRel /\ \E i \in 1..Len(section.heightRel) : section.heightRel[i] = Blank
    THEN SectionValidationError("heightRel entries must be non-empty strings", sectionId)
    ELSE IF section.from # Null /\ (section.from = Undef \/ section.from = Blank)
    THEN SectionValidationError("from property must be null or a non-empty string", sectionId)
    ELSE NoError

validateSection(sectionId, section) ==
    IF ~section.obj
    THEN SectionValidationError("Section configuration must be an object", sectionId)
    ELSE IF ~section.hasHeight /\ ~section.hasRel
    THEN SectionValidationError("Section must have either height or heightRel property", sectionId)
    ELSE IF section.hasHeight /\ section.hasRel
    THEN SectionValidationError("Section cannot have both height and heightRel properties", sectionId)
    ELSE IF section.hasHeight /\ LessThan(section.height, 0)
    THEN SectionValidationError("Height must be a non-negative number", sectionId)
    ELSE IF section.hasRel /\ section.heightRel = <<>>
    THEN SectionValidationError("heightRel must be a non-empty array", sectionId)
    ELSE IF section.hasRel /\ \E i \in 1..Len(section.heightRel) : section.heightRel[i] = Blank
    THEN SectionValidationError("heightRel entries must be non-empty strings", sectionId)
    ELSE IF section.from # Null /\ (section.from = Undef \/ section.from = Blank)
    THEN SectionValidationError("from property must be null or a non-empty string", sectionId)
    ELSE NoError

\* validate(): the emptiness check and the loop over Object.entries; the
\* result is the error thrown (NoError when none) and the ids validateSection
\* was called on
RECURSIVE validateEach(_, _)
validateEach(entries, i) ==
    IF i > Len(entries) THEN [error |-> NoError, examined |-> ObjectKeys(entries)]
    ELSE LET err == validateSection(entries[i].id, entries[i].section)
         IN  IF err # NoError
             THEN [error |-> err, examined |-> SubSeq(ObjectKeys(entries), 1, i)]
             ELSE validateEach(entries, i + 1)

\* mutant: the emptiness check is missing
validateSections_NoEmptyCheck(entries) == validateEach(entries, 1)

validateSections(entries) ==
    IF Len(entries) = 0
    THEN [error |-> SectionStackError("Sections configuration cannot be empty", <<>>),
          examined |-> <<>>]
    ELSE validateEach(entries, 1)

\* --------------------------------------------------- validateReferences
RECURSIVE firstMissingRel(_, _, _)
firstMissingRel(entries, heightRel, i) ==
    IF i > Len(heightRel) THEN Undef
    ELSE IF ~HasSectionConfig(entries, heightRel[i]) THEN heightRel[i]
    ELSE firstMissingRel(entries, heightRel, i + 1)

RECURSIVE validateReferencesFrom(_, _)
validateReferencesFrom(entries, i) ==
    IF i > Len(entries) THEN NoError
    ELSE LET sectionId == entries[i].id
             section == entries[i].section
             refId == IF section.hasRel THEN firstMissingRel(entries, section.heightRel, 1) ELSE Undef
         IN  IF Truthy(section.from) /\ ~HasSectionConfig(entries, section.from)
             THEN MissingSectionError(sectionId, section.from)
             ELSE IF refId # Undef THEN MissingSectionError(sectionId, refId)
             ELSE validateReferencesFrom(entries, i + 1)

validateReferences(entries) == validateReferencesFrom(entries, 1)

\* ------------------------------------------- detectCircularDependencies
\* st = [visited, visiting, error]; an error set in st is the exception
\* propagating out of the recursion
RECURSIVE detectVisit(_, _, _, _)
RECURSIVE detectVisitRel(_, _, _, _, _)
\* mutant: a finished section keeps its in-progress mark
detectVisit_KeepsMark(entries, sectionId, path, st) ==
    IF st.error # NoError THEN st
    ELSE IF sectionId \in st.visiting
    THEN [st EXCEPT !.error = CircularDependencyError(sectionId, path)]
    ELSE IF sectionId \in st.visited THEN st
    ELSE LET section == SectionAt(entries, sectionId)
             st1 == [st EXCEPT !.visiting = @ \cup {sectionId}]
             st2 == IF Truthy(section.from) /\ HasSectionConfig(entries, section.from)
                    THEN detectVisit(entries, section.from, Append(path, sectionId), st1)
                    ELSE st1
             st3 == IF section.hasRel
                    THEN detectVisitRel(entries, section.heightRel, 1, Append(path, sectionId), st2)
                    ELSE st2
         IN  IF st3.error # NoError THEN st3
             ELSE [st3 EXCEPT !.visited = @ \cup {sectionId}]

detectVisit(entries, sectionId, path, st) ==
    IF st.error # NoError THEN st
    ELSE IF sectionId \in st.visiting
    THEN [st EXCEPT !.error = CircularDependencyError(sectionId, path)]
    ELSE IF sectionId \in st.visited THEN st
    ELSE LET section == SectionAt(entries, sectionId)
             st1 == [st EXCEPT !.visiting = @ \cup {sectionId}]
             st2 == IF Truthy(section.from) /\ HasSectionConfig(entries, section.from)
                    THEN detectVisit(entries, section.from, Append(path, sectionId), st1)
                    ELSE st1
             st3 == IF section.hasRel
                    THEN detectVisitRel(entries, section.heightRel, 1, Append(path, sectionId), st2)
                    ELSE st2
         IN  IF st3.error # NoError THEN st3
             ELSE [st3 EXCEPT !.visiting = @ \ {sectionId}, !.visited = @ \cup {sectionId}]

detectVisitRel(entries, heightRel, i, path, st) ==
    IF i > Len(heightRel) \/ st.error # NoError THEN st
    ELSE detectVisitRel(entries, heightRel, i + 1, path,
            IF HasSectionConfig(entries, heightRel[i])
            THEN detectVisit(entries, heightRel[i], path, st)
            ELSE st)

RECURSIVE detectFrom(_, _, _)
detectFrom(entries, i, st) ==
    IF i > Len(entries) \/ st.error # NoError THEN st
    ELSE detectFrom(entries, i + 1, detectVisit(entries, entries[i].id, <<>>, st))

\* mutant: references are checked before cycles are looked for
detectCircularDependencies_ReferencesFirst(entries) ==
    IF validateReferences(entries) # NoError
    THEN validateReferences(entries)
    ELSE detectFrom(entries, 1, [visited |-> {}, visiting |-> {}, error |-> NoError]).error

\* mutant: the traversal starts from the first section only
detectCircularDependencies_FirstOnly(entries) ==
    detectVisit(entries, entries[1].id, <<>>,
                [visited |-> {}, visiting |-> {}, error |-> NoError]).error

detectCircularDependencies(entries) ==
    detectFrom(entries, 1, [visited |-> {}, visiting |-> {}, error |-> NoError]).error

\* ------------------------------------------------------ topologicalSort
\* st = [visited, sorted]
RECURSIVE sortVisit(_, _, _)
RECURSIVE sortVisitRel(_, _, _, _)
sortVisit(entries, sectionId, st) ==
    IF sectionId \in st.visited THEN st
    ELSE LET section == SectionAt(entries, sectionId)
             st1 == IF Truthy(section.from) /\ HasSectionConfig(entries, section.from)
                    THEN sortVisit(entries, section.from, st)
                    ELSE st
             st2 == IF section.hasRel
                    THEN sortVisitRel(entries, section.heightRel, 1, st1)
                    ELSE st1
         IN  [visited |-> st2.visited \cup {sectionId}, sorted |-> Append(st2.sorted, sectionId)]

sortVisitRel(entries, heightRel, i, st) ==
    IF i > Len(heightRel) THEN st
    ELSE sortVisitRel(entries, heightRel, i + 1,
            IF HasSectionConfig(entries, heightRel[i])
            THEN sortVisit(entries, heightRel[i], st)
            ELSE st)

RECURSIVE sortFrom(_, _, _)
sortFrom(entries, i, st) ==
    IF i > Len(entries) THEN st
    ELSE sortFrom(entries, i + 1, sortVisit(entries, entries[i].id, st))

\* mutant: the order turned around, dependents before what they depend on
topologicalSort_DependentsFirst(entries) ==
    LET sorted == sortFrom(entries, 1, [visited |-> {}, sorted |-> <<>>]).sorted
    IN  [i \in 1..Len(sorted) |-> sorted[Len(sorted) + 1 - i]]

\* mutant: the sections in the order of the mapping, dependencies ignored
topologicalSort_InsertionOrder(entries) == ObjectKeys(entries)

topologicalSort(entries) == sortFrom(entries, 1, [visited |-> {}, sorted |-> <<>>]).sorted

\* --------------------------------------------------------- calculateAll
\* A JavaScript number is an IEEE-754 double: a sum is rounded to the
\* nearest number with a 53-bit significand, ties to the even significand.
\* The model keeps integer-valued numbers and scales the significand down to
\* MantissaBits bits: integers up to 2^MantissaBits are exact, above that only
\* every second, fourth, ... integer is a number.
MantissaBits == 4

RECURSIVE Pow2(_)
Pow2(n) == IF n = 0 THEN 1 ELSE 2 * Pow2(n - 1)

\* the distance between neighbouring numbers at the magnitude of x >= 0
RECURSIVE UlpOf(_, _)
UlpOf(x, u) == IF x < Pow2(MantissaBits) * u THEN u ELSE UlpOf(x, 2 * u)

Round(x) ==
    IF x < 0 THEN x
    ELSE LET u == UlpOf(x, 1)
             q == x \div u
             r == x % u
         IN  IF 2 * r < u THEN q * u
             ELSE IF 2 * r > u THEN (q + 1) * u
             ELSE IF q % 2 = 0 THEN q * u
             ELSE (q + 1) * u

\* x + y: NaN when either operand is NaN or undefined
Plus(x, y) == IF x = NaN \/ y = NaN THEN NaN ELSE Round(x + y)

\* positions is a function from the own keys set so far to [y, height];
\* positions[id] is truthy for an own key and for an inherited name
PositionTruthy(positions, id) == id \in DOMAIN positions \/ id \in ProtoIds
PositionY(positions, id) == IF id \in DOMAIN positions THEN positions[id].y ELSE NaN
PositionHeight(positions, id) == IF id \in DOMAIN positions THEN positions[id].height ELSE NaN

\* mutant: only literal heights are summed, a listed section that uses
\* heightRel contributes nothing
RECURSIVE reduceHeightRel_LiteralOnly(_, _, _, _, _)
reduceHeightRel_LiteralOnly(entries, positions, heightRel, i, sum) ==
    IF i > Len(heightRel) THEN sum
    ELSE LET refSection == SectionAt(entries, heightRel[i])
         IN  reduceHeightRel_LiteralOnly(entries, positions, heightRel, i + 1,
                IF refSection.hasHeight THEN Plus(sum, refSection.height) ELSE sum)

\* mutant: an id listed more than once is counted at its first occurrence only
RECURSIVE reduceHeightRel_Collapsed(_, _, _, _, _)
reduceHeightRel_Collapsed(entries, positions, heightRel, i, sum) ==
    IF i > Len(heightRel) THEN sum
    ELSE LET refId == heightRel[i]
             refSection == SectionAt(entries, refId)
         IN  reduceHeightRel_Collapsed(entries, positions, heightRel, i + 1,
                IF \E j \in 1..(i - 1) : heightRel[j] = refId THEN sum
                ELSE IF refSection.hasHeight THEN Plus(sum, refSection.height)
                ELSE IF PositionTruthy(positions, refId)
                     THEN Plus(sum, PositionHeight(positions, refId))
                     ELSE sum)

\* section.heightRel.reduce(..., 0), from index i with accumulator sum
RECURSIVE reduceHeightRel(_, _, _, _, _)
reduceHeightRel(entries, positions, heightRel, i, sum) ==
    IF i > Len(heightRel) THEN sum
    ELSE LET refId == heightRel[i]
             refSection == SectionAt(entries, refId)
         IN  reduceHeightRel(entries, positions, heightRel, i + 1,
                IF refSection.hasHeight THEN Plus(sum, refSection.height)
                ELSE IF PositionTruthy(positions, refId)
                     THEN Plus(sum, PositionHeight(positions, refId))
                     ELSE sum)

\* mutant: a literal height is used where the section is referred to, but
\* the section's own position gets height 0
sectionHeight_LiteralDropped(entries, positions, section) ==
    IF section.hasHeight THEN 0
    ELSE IF section.hasRel THEN reduceHeightRel(entries, positions, section.heightRel, 1, 0)
    ELSE 0

sectionHeight(entries, positions, section) ==
    IF section.hasHeight THEN section.height
    ELSE IF section.hasRel THEN reduceHeightRel(entries, positions, section.heightRel, 1, 0)
    ELSE 0

\* mutant: the from target's height is not added
sectionY_WithoutHeight(positions, section) ==
    IF Truthy(section.from) /\ PositionTruthy(positions, section.from)
    THEN PositionY(positions, section.from)
    ELSE 0

sectionY(positions, section) ==
    IF Truthy(section.from) /\ PositionTruthy(positions, section.from)
    THEN Plus(PositionY(positions, section.from), PositionHeight(positions, section.from))
    ELSE 0

RECURSIVE calculateFrom(_, _, _, _)
calculateFrom(entries, sortedSections, i, positions) ==
    IF i > Len(sortedSections) THEN positions
    ELSE LET sectionId == sortedSections[i]
             section == SectionAt(entries, sectionId)
             height == sectionHeight(entries, positions, section)
             y == sectionY(positions, section)
         IN  calculateFrom(entries, sortedSections, i + 1,
                (sectionId :> [y |-> y, height |-> height]) @@ positions)

calculateAll(entries) ==
    calculateFrom(entries, topologicalSort(entries), 1, EmptyMap)

\* ---------------------------------------------------------------- state
VARIABLES
    sections,    \* the constructor's argument, kept as this.sections
    pc,          \* where the constructor is: new, validate, detect, references,
                 \* calculate, ready (constructed) or thrown
    error,       \* the error the constructor threw, NoError if none
    examined,    \* the ids validateSection has been called on, in order
    passed,      \* the checks of validate() that completed without error
    calculated,  \* this.calculated: id -> address of its position record
    heap,        \* address -> [y, height]: the position records
    returned,    \* the objects getAll() has returned: each id -> address
    result,      \* outcome of the last query call
    writes,      \* how many times callers have written to returned objects
    walk         \* the depth-first traversal in progress, when the constructor
                 \* is followed call by call: the call stack of visit(), the
                 \* sets visited and visiting, the list sorted and the index
                 \* of the for loop that starts the visits

vars == <<sections, pc, error, examined, passed, calculated, heap, returned, result, writes, walk>>

\* the locals of detectCircularDependencies / topologicalSort on entry
NoWalk == [stack |-> <<>>, visited |-> {}, visiting |-> {}, sorted |-> <<>>, next |-> 1]

NoResult == [op |-> "none", id |-> Undef, error |-> NoError,
             value |-> 0, defined |-> FALSE, flag |-> FALSE]

Throws(op, id, err) == [op |-> op, id |-> id, error |-> err,
                        value |-> 0, defined |-> FALSE, flag |-> FALSE]
ReturnsNumber(op, id, v) == [op |-> op, id |-> id, error |-> NoError,
                             value |-> v, defined |-> TRUE, flag |-> FALSE]
ReturnsUndefined(op, id) == [op |-> op, id |-> id, error |-> NoError,
                             value |-> 0, defined |-> FALSE, flag |-> FALSE]
ReturnsBoolean(op, id, b) == [op |-> op, id |-> id, error |-> NoError,
                              value |-> 0, defined |-> FALSE, flag |-> b]

InitWith(configs) ==
    /\ sections \in configs
    /\ pc = "new"
    /\ error = NoError
    /\ examined = <<>>
    /\ passed = <<>>
    /\ calculated = EmptyMap
    /\ heap = EmptyMap
    /\ returned = <<>>
    /\ result = NoResult
    /\ writes = 0
    /\ walk = NoWalk

Init == InitWith(Configurations)

\* the caller writes the next section of the mapping it is going to pass:
\* keys SectionIds[1], SectionIds[2], ... in insertion order, total size <= budget,
\* referring to the given ids only
AddSectionWithin(budget, ids) ==
    /\ pc = "new"
    /\ sections.type = "object"
    /\ Len(sections.entries) < Len(SectionIds)
    /\ TotalSize(sections.entries) <= budget
    /\ \E s \in SectionsUpTo(budget - TotalSize(sections.entries), ids) :
          /\ sections' = [sections EXCEPT
                          !.entries = Append(@, [id |-> SectionIds[Len(sections.entries) + 1],
                                                 section |-> s]),
                          !.inserted = Append(@, SectionIds[Len(sections.entries) + 1])]
    /\ UNCHANGED <<walk, writes, pc, error, examined, passed, calculated, heap, returned, result>>

AddSection == AddSectionWithin(MaxSize, RefIds)

\* the caller writes a section under an integer-like id: whenever it is
\* written, the property comes first in the enumeration of the mapping
AddIndexSectionWithin(budget, ids) ==
    /\ pc = "new"
    /\ sections.type = "object"
    /\ Len(sections.entries) < Len(SectionIds)
    /\ TotalSize(sections.entries) <= budget
    /\ \E id \in IndexIds \ Keys(sections.entries) :
         \E s \in SectionsUpTo(budget - TotalSize(sections.entries), ids) :
          /\ sections' = [sections EXCEPT
                          !.entries = <<[id |-> id, section |-> s]>> \o @,
                          !.inserted = Append(@, id)]
    /\ UNCHANGED <<walk, writes, pc, error, examined, passed, calculated, heap, returned, result>>

\* ------------------------------------------------------- the constructor
Throw(err) ==
    /\ pc' = "thrown"
    /\ error' = err

\* constructor, lines 70-75: the argument check and this.sections = sections
Constructor ==
    /\ pc = "new"
    /\ IF sections.type # "object"
       THEN Throw(SectionStackError("Sections configuration is required and must be an object", <<>>))
       ELSE pc' = "validate" /\ error' = error
    /\ UNCHANGED <<walk, writes, sections, examined, passed, calculated, heap, returned, result>>

\* mutant: cycles are looked for before the sections are validated
ValidateSections_CyclesFirst ==
    /\ pc = "validate"
    /\ LET c == IF Len(sections.entries) = 0 THEN NoError
                ELSE detectCircularDependencies(sections.entries)
           r == validateSections(sections.entries)
       IN  IF c # NoError
           THEN examined' = <<>> /\ Throw(c) /\ passed' = passed
           ELSE /\ examined' = r.examined
                /\ IF r.error # NoError
                   THEN Throw(r.error) /\ passed' = passed
                   ELSE pc' = "detect" /\ error' = error /\ passed' = Append(passed, "validate")
    /\ UNCHANGED <<walk, writes, sections, calculated, heap, returned, result>>

\* validate(), lines 128-136
ValidateSections ==
    /\ pc = "validate"
    /\ LET r == validateSections(sections.entries)
       IN  /\ examined' = r.examined
           /\ IF r.error # NoError
              THEN Throw(r.error) /\ passed' = passed
              ELSE pc' = "detect" /\ error' = error /\ passed' = Append(passed, "validate")
    /\ UNCHANGED <<walk, writes, sections, calculated, heap, returned, result>>

\* validate(), line 139
DetectCircularDependencies ==
    /\ pc = "detect"
    /\ LET err == detectCircularDependencies(sections.entries)
       IN  IF err # NoError
           THEN Throw(err) /\ passed' = passed
           ELSE pc' = "references" /\ error' = error /\ passed' = Append(passed, "detect")
    /\ UNCHANGED <<walk, writes, sections, examined, calculated, heap, returned, result>>

\* mutant: the missing-reference error is recorded and construction goes on
ValidateReferences_GoesOn ==
    /\ pc = "references"
    /\ error' = validateReferences(sections.entries)
    /\ pc' = "calculate"
    /\ passed' = Append(passed, "references")
    /\ UNCHANGED <<walk, writes, sections, examined, calculated, heap, returned, result>>

\* mutant: any one of the missing references is reported, not the first
ValidateReferences_AnyMissing ==
    /\ pc = "references"
    /\ IF validateReferences(sections.entries) # NoError
       THEN /\ \E i \in 1..Len(sections.entries) :
                  \E refId \in Range(sections.entries[i].section.heightRel)
                                \cup {sections.entries[i].section.from} :
                     /\ Truthy(refId)
                     /\ ~HasSectionConfig(sections.entries, refId)
                     /\ Throw(MissingSectionError(sections.entries[i].id, refId))
            /\ passed' = passed
       ELSE pc' = "calculate" /\ error' = error /\ passed' = Append(passed, "references")
    /\ UNCHANGED <<walk, writes, sections, examined, calculated, heap, returned, result>>

\* validate(), line 142
ValidateReferences ==
    /\ pc = "references"
    /\ LET err == validateReferences(sections.entries)
       IN  IF err # NoError
           THEN Throw(err) /\ passed' = passed
           ELSE pc' = "calculate" /\ error' = error /\ passed' = Append(passed, "references")
    /\ UNCHANGED <<walk, writes, sections, examined, calculated, heap, returned, result>>

\* constructor, line 77: every position record is a fresh object; its
\* address is the section's index in the topological order, which is the
\* order the records are created in
AddressOf(sortedSections) ==
    [id \in Range(sortedSections) |->
        CHOOSE i \in 1..Len(sortedSections) : sortedSections[i] = id]

RecordsOf(sortedSections, positions) ==
    [a \in 1..Len(sortedSections) |-> positions[sortedSections[a]]]

CalculateAll ==
    /\ pc = "calculate"
    /\ calculated' = AddressOf(topologicalSort(sections.entries))
    /\ heap' = RecordsOf(topologicalSort(sections.entries), calculateAll(sections.entries))
    /\ pc' = "ready"
    /\ UNCHANGED <<walk, writes, sections, error, examined, passed, returned, result>>

\* new SectionStack(config) as a whole: how it ends (ready or thrown), the
\* error thrown, and the id -> [y, height] map it computed
construct(config) ==
    IF config.type # "object"
    THEN [pc |-> "thrown", positions |-> EmptyMap,
          error |-> SectionStackError("Sections configuration is required and must be an object", <<>>)]
    ELSE IF validateSections(config.entries).error # NoError
    THEN [pc |-> "thrown", positions |-> EmptyMap, error |-> validateSections(config.entries).error]
    ELSE IF detectCircularDependencies(config.entries) # NoError
    THEN [pc |-> "thrown", positions |-> EmptyMap, error |-> detectCircularDependencies(config.entries)]
    ELSE IF validateReferences(config.entries) # NoError
    THEN [pc |-> "thrown", positions |-> EmptyMap, error |-> validateReferences(config.entries)]
    ELSE [pc |-> "ready", positions |-> calculateAll(config.entries), error |-> NoError]

\* -------------------------------------------------------------- queries
\* the truthiness of this.calculated[id], and of (id in this.calculated)
CalculatedTruthy(calc, id) == id \in DOMAIN calc \/ id \in ProtoIds
InCalculated(calc, id) == id \in DOMAIN calc \/ id \in ProtoIds

LookupError(sectionId) ==
    SectionStackError("Section not found in calculated positions", <<sectionId>>)

getY(calc, hp, sectionId) ==
    IF ~CalculatedTruthy(calc, sectionId) THEN Throws("getY", sectionId, LookupError(sectionId))
    ELSE IF sectionId \in DOMAIN calc THEN ReturnsNumber("getY", sectionId, hp[calc[sectionId]].y)
    ELSE ReturnsUndefined("getY", sectionId)

\* mutant: a literal height is read from the mapping the instance refers to
getHeight_Live(calc, hp, sectionId) ==
    IF ~CalculatedTruthy(calc, sectionId) THEN Throws("getHeight", sectionId, LookupError(sectionId))
    ELSE IF sectionId \in Keys(sections.entries) /\ SectionAt(sections.entries, sectionId).hasHeight
    THEN ReturnsNumber("getHeight", sectionId, SectionAt(sections.entries, sectionId).height)
    ELSE IF sectionId \in DOMAIN calc THEN ReturnsNumber("getHeight", sectionId, hp[calc[sectionId]].height)
    ELSE ReturnsUndefined("getHeight", sectionId)

getHeight(calc, hp, sectionId) ==
    IF ~CalculatedTruthy(calc, sectionId) THEN Throws("getHeight", sectionId, LookupError(sectionId))
    ELSE IF sectionId \in DOMAIN calc THEN ReturnsNumber("getHeight", sectionId, hp[calc[sectionId]].height)
    ELSE ReturnsUndefined("getHeight", sectionId)

\* Object.values(this.calculated).reduce((max, s) => Math.max(max, s.y + s.height), 0)
RECURSIVE reduceMax(_, _, _, _)
reduceMax(calc, hp, ids, max) ==
    IF ids = {} THEN max
    ELSE LET id == CHOOSE x \in ids : TRUE
         IN  reduceMax(calc, hp, ids \ {id}, MathMax(max, Plus(hp[calc[id]].y, hp[calc[id]].height)))

\* mutant: the largest height, the offsets left out
RECURSIVE reduceMaxHeight(_, _, _, _)
reduceMaxHeight(calc, hp, ids, max) ==
    IF ids = {} THEN max
    ELSE LET id == CHOOSE x \in ids : TRUE
         IN  reduceMaxHeight(calc, hp, ids \ {id}, MathMax(max, hp[calc[id]].height))

getTotalHeight_HeightsOnly(calc, hp) ==
    ReturnsNumber("getTotalHeight", Undef, reduceMaxHeight(calc, hp, DOMAIN calc, 0))

getTotalHeight(calc, hp) == ReturnsNumber("getTotalHeight", Undef, reduceMax(calc, hp, DOMAIN calc, 0))

hasSection(calc, sectionId) == ReturnsBoolean("hasSection", sectionId, InCalculated(calc, sectionId))

\* { ...this.calculated }: a new object holding the same position records
getAll(calc) == calc

QueryIds == RefIds

GetY ==
    /\ pc = "ready"
    /\ \E id \in QueryIds : result' = getY(calculated, heap, id)
    /\ UNCHANGED <<walk, writes, sections, pc, error, examined, passed, calculated, heap, returned>>

GetHeight ==
    /\ pc = "ready"
    /\ \E id \in QueryIds : result' = getHeight(calculated, heap, id)
    /\ UNCHANGED <<walk, writes, sections, pc, error, examined, passed, calculated, heap, returned>>

GetTotalHeight ==
    /\ pc = "ready"
    /\ result' = getTotalHeight(calculated, heap)
    /\ UNCHANGED <<walk, writes, sections, pc, error, examined, passed, calculated, heap, returned>>

HasSection ==
    /\ pc = "ready"
    /\ \E id \in QueryIds : result' = hasSection(calculated, id)
    /\ UNCHANGED <<walk, writes, sections, pc, error, examined, passed, calculated, heap, returned>>

\* mutant: the instance hands its own map over and keeps an empty one
GetAll_Moves ==
    /\ pc = "ready"
    /\ Len(returned) < MaxGetAll
    /\ returned' = Append(returned, calculated)
    /\ calculated' = EmptyMap
    /\ result' = [NoResult EXCEPT !.op = "getAll"]
    /\ UNCHANGED <<walk, writes, sections, pc, error, examined, passed, heap>>

GetAll ==
    /\ pc = "ready"
    /\ Len(returned) < MaxGetAll
    /\ returned' = Append(returned, getAll(calculated))
    /\ result' = [NoResult EXCEPT !.op = "getAll"]
    /\ UNCHANGED <<walk, writes, sections, pc, error, examined, passed, calculated, heap>>

Construct ==
    \/ Constructor
    \/ ValidateSections
    \/ DetectCircularDependencies
    \/ ValidateReferences
    \/ CalculateAll

Next ==
    \/ AddSection
    \/ Construct
    \/ GetY
    \/ GetHeight
    \/ GetTotalHeight
    \/ HasSection

Spec == Init /\ [][Next]_vars

\* ------------------------------- heights of different magnitude, summed
\* sections with a literal height of 1 or of 2^MantissaBits (the largest
\* integer below which every integer is a number), and sections whose
\* heightRel lists up to k section ids; all placed at the top
NumberSections(k) ==
    {SectionConfig(<<h>>, <<>>, Null) : h \in {1, Pow2(MantissaBits)}} \cup
    {SectionConfig(<<>>, <<r>>, Null) : r \in UNION {SeqsOfLen(KeyIds, n) : n \in 1..k}}

AddNumberSection ==
    /\ pc = "new"
    /\ sections.type = "object"
    /\ Len(sections.entries) < Len(SectionIds)
    /\ TotalSize(sections.entries) <= MaxNumbersSize
    /\ \E s \in NumberSections(MaxNumbersSize - TotalSize(sections.entries)) :
          /\ sections' = [sections EXCEPT
                          !.entries = Append(@, [id |-> SectionIds[Len(sections.entries) + 1],
                                                 section |-> s]),
                          !.inserted = Append(@, SectionIds[Len(sections.entries) + 1])]
    /\ UNCHANGED <<walk, writes, pc, error, examined, passed, calculated, heap, returned, result>>

\* ------------------------------------------- construction, call by call
\* The traversals of detectCircularDependencies and topologicalSort followed
\* one call, one edge and one return at a time.  A frame of the call stack
\* is [id, path, at]: the arguments of visit() and the place the call is at,
\* 0 on entry, 1 at the from edge, 1 + j at heightRel[j], and one more than
\* the last edge at the return.
Top == walk.stack[Len(walk.stack)]
Pop(stack) == SubSeq(stack, 1, Len(stack) - 1)
Frame(id, path) == [id |-> id, path |-> path, at |-> 0]
Advance(stack) == [stack EXCEPT ![Len(stack)].at = @ + 1]
EdgesOf(section) == 1 + (IF section.hasRel THEN Len(section.heightRel) ELSE 0)

StepSections(k) ==
    {s \in {NotObject}
            \cup {SectionConfig(<<1>>, <<>>, f) : f \in {Null} \cup RefIds}
            \cup {SectionConfig(<<>>, <<r>>, f) :
                     r \in UNION {SeqsOfLen(KeyIds, n) : n \in 1..k}, f \in {Null} \cup KeyIds} :
        Size(s) <= k}

AddStepSection ==
    /\ pc = "new"
    /\ sections.type = "object"
    /\ Len(sections.entries) < Len(SectionIds)
    /\ TotalSize(sections.entries) <= MaxStepsSize
    /\ \E s \in StepSections(MaxStepsSize - TotalSize(sections.entries)) :
          /\ sections' = [sections EXCEPT
                          !.entries = Append(@, [id |-> SectionIds[Len(sections.entries) + 1],
                                                 section |-> s]),
                          !.inserted = Append(@, SectionIds[Len(sections.entries) + 1])]
    /\ UNCHANGED <<walk, writes, pc, error, examined, passed, calculated, heap, returned, result>>

\* lines 237-239: the for loop calls visit(sectionId)
DetectNext ==
    /\ pc = "detect"
    /\ walk.stack = <<>>
    /\ walk.next <= Len(sections.entries)
    /\ walk' = [walk EXCEPT !.stack = <<Frame(ObjectKeys(sections.entries)[walk.next], <<>>)>>,
                            !.next = @ + 1]
    /\ UNCHANGED <<writes, sections, pc, error, examined, passed, calculated, heap, returned, result>>

\* mutant: visit() has no test for a section in progress
DetectEnter_NoMark ==
    /\ pc = "detect"
    /\ walk.stack # <<>>
    /\ Top.at = 0
    /\ IF Top.id \in walk.visited
       THEN walk' = [walk EXCEPT !.stack = Pop(@)]
       ELSE walk' = [walk EXCEPT !.visiting = @ \cup {Top.id}, !.stack = Advance(@)]
    /\ UNCHANGED <<writes, sections, pc, error, examined, passed, calculated, heap, returned, result>>

\* lines 209-216: the tests on entry of visit(); when the error is thrown
\* walk keeps the traversal as it was at the throw
DetectEnter ==
    /\ pc = "detect"
    /\ walk.stack # <<>>
    /\ Top.at = 0
    /\ IF Top.id \in walk.visiting
       THEN Throw(CircularDependencyError(Top.id, Top.path)) /\ walk' = walk
       ELSE /\ pc' = pc /\ error' = error
            /\ IF Top.id \in walk.visited
               THEN walk' = [walk EXCEPT !.stack = Pop(@)]
               ELSE walk' = [walk EXCEPT !.visiting = @ \cup {Top.id}, !.stack = Advance(@)]
    /\ UNCHANGED <<writes, sections, examined, passed, calculated, heap, returned, result>>

\* lines 220-222: the from edge
DetectFrom ==
    /\ pc = "detect"
    /\ walk.stack # <<>>
    /\ Top.at = 1
    /\ LET section == SectionAt(sections.entries, Top.id)
       IN  IF Truthy(section.from) /\ HasSectionConfig(sections.entries, section.from)
           THEN /\ Len(walk.stack) < MaxDepth
                /\ walk' = [walk EXCEPT !.stack =
                               Append(Advance(@), Frame(section.from, Append(Top.path, Top.id)))]
           ELSE walk' = [walk EXCEPT !.stack = Advance(@)]
    /\ UNCHANGED <<writes, sections, pc, error, examined, passed, calculated, heap, returned, result>>

\* lines 225-231: one turn of the loop over heightRel
DetectRel ==
    /\ pc = "detect"
    /\ walk.stack # <<>>
    /\ LET section == SectionAt(sections.entries, Top.id)
       IN  /\ Top.at > 1
           /\ Top.at <= EdgesOf(section)
           /\ LET refId == section.heightRel[Top.at - 1]
              IN  IF HasSectionConfig(sections.entries, refId)
                  THEN /\ Len(walk.stack) < MaxDepth
                       /\ walk' = [walk EXCEPT !.stack =
                                      Append(Advance(@), Frame(refId, Append(Top.path, Top.id)))]
                  ELSE walk' = [walk EXCEPT !.stack = Advance(@)]
    /\ UNCHANGED <<writes, sections, pc, error, examined, passed, calculated, heap, returned, result>>

\* lines 233-234: the section is resolved and visit() returns
DetectLeave ==
    /\ pc = "detect"
    /\ walk.stack # <<>>
    /\ Top.at = EdgesOf(SectionAt(sections.entries, Top.id)) + 1
    /\ walk' = [walk EXCEPT !.visiting = @ \ {Top.id},
                            !.visited = @ \cup {Top.id},
                            !.stack = Pop(@)]
    /\ UNCHANGED <<writes, sections, pc, error, examined, passed, calculated, heap, returned, result>>

\* line 240: the for loop is through and detectCircularDependencies returns
DetectDone ==
    /\ pc = "detect"
    /\ walk.stack = <<>>
    /\ walk.next > Len(sections.entries)
    /\ pc' = "references"
    /\ passed' = Append(passed, "detect")
    /\ walk' = NoWalk
    /\ UNCHANGED <<writes, sections, error, examined, calculated, heap, returned, result>>

\* lines 339-341: the for loop of topologicalSort calls visit(sectionId)
SortNext ==
    /\ pc = "calculate"
    /\ walk.stack = <<>>
    /\ walk.next <= Len(sections.entries)
    /\ walk' = [walk EXCEPT !.stack = <<Frame(ObjectKeys(sections.entries)[walk.next], <<>>)>>,
                            !.next = @ + 1]
    /\ UNCHANGED <<writes, sections, pc, error, examined, passed, calculated, heap, returned, result>>

\* lines 316-318: the only test on entry of visit()
SortEnter ==
    /\ pc = "calculate"
    /\ walk.stack # <<>>
    /\ Top.at = 0
    /\ IF Top.id \in walk.visited
       THEN walk' = [walk EXCEPT !.stack = Pop(@)]
       ELSE walk' = [walk EXCEPT !.stack = Advance(@)]
    /\ UNCHANGED <<writes, sections, pc, error, examined, passed, calculated, heap, returned, result>>

\* lines 323-325: the from edge
SortFrom ==
    /\ pc = "calculate"
    /\ walk.stack # <<>>
    /\ Top.at = 1
    /\ LET section == SectionAt(sections.entries, Top.id)
       IN  IF Truthy(section.from) /\ HasSectionConfig(sections.entries, section.from)
           THEN /\ Len(walk.stack) < MaxDepth
                /\ walk' = [walk EXCEPT !.stack = Append(Advance(@), Frame(section.from, <<>>))]
           ELSE walk' = [walk EXCEPT !.stack = Advance(@)]
    /\ UNCHANGED <<writes, sections, pc, error, examined, passed, calculated, heap, returned, result>>

\* lines 327-333: one turn of the loop over heightRel
SortRel ==
    /\ pc = "calculate"
    /\ walk.stack # <<>>
    /\ LET section == SectionAt(sections.entries, Top.id)
       IN  /\ Top.at > 1
           /\ Top.at <= EdgesOf(section)
           /\ LET refId == section.heightRel[Top.at - 1]
              IN  IF HasSectionConfig(sections.entries, refId)
                  THEN /\ Len(walk.stack) < MaxDepth
                       /\ walk' = [walk EXCEPT !.stack = Append(Advance(@), Frame(refId, <<>>))]
                  ELSE walk' = [walk EXCEPT !.stack = Advance(@)]
    /\ UNCHANGED <<writes, sections, pc, error, examined, passed, calculated, heap, returned, result>>

\* lines 335-336: the section is marked and appended, and visit() returns
SortLeave ==
    /\ pc = "calculate"
    /\ walk.stack # <<>>
    /\ Top.at = EdgesOf(SectionAt(sections.entries, Top.id)) + 1
    /\ walk' = [walk EXCEPT !.visited = @ \cup {Top.id},
                            !.sorted = Append(@, Top.id),
                            !.stack = Pop(@)]
    /\ UNCHANGED <<writes, sections, pc, error, examined, passed, calculated, heap, returned, result>>

\* line 343 and lines 270-305, line 77: topologicalSort returns sorted and
\* the pass over it computes the positions
CalculatePositions ==
    /\ pc = "calculate"
    /\ walk.stack = <<>>
    /\ walk.next > Len(sections.entries)
    /\ calculated' = AddressOf(walk.sorted)
    /\ heap' = RecordsOf(walk.sorted, calculateFrom(sections.entries, walk.sorted, 1, EmptyMap))
    /\ pc' = "ready"
    /\ UNCHANGED <<walk, writes, sections, error, examined, passed, returned, result>>

ConstructSteps ==
    \/ Constructor
    \/ ValidateSections
    \/ DetectNext
    \/ DetectEnter
    \/ DetectFrom
    \/ DetectRel
    \/ DetectLeave
    \/ DetectDone
    \/ ValidateReferences
    \/ SortNext
    \/ SortEnter
    \/ SortFrom
    \/ SortRel
    \/ SortLeave
    \/ CalculatePositions

NextSteps ==
    \/ AddStepSection
    \/ ConstructSteps

\* the constructor runs synchronously: once called it is not suspended, so
\* its steps are taken as long as one is possible
SpecSteps == Init /\ [][NextSteps]_vars /\ WF_vars(ConstructSteps)

\* mappings over every kind of number a height can be: negative, zero,
\* positive and NaN (typeof NaN is 'number')
HeightValues == {-1, 0, 1, NaN}

HeightSections(k) ==
    {s \in {SectionConfig(<<h>>, <<>>, f) : h \in HeightValues, f \in {Null} \cup KeyIds}
            \cup {SectionConfig(<<>>, <<r>>, f) :
                     r \in UNION {SeqsOfLen(KeyIds, n) : n \in 1..k}, f \in {Null} \cup KeyIds} :
        Size(s) <= k}

AddHeightSection ==
    /\ pc = "new"
    /\ sections.type = "object"
    /\ Len(sections.entries) < Len(SectionIds)
    /\ TotalSize(sections.entries) <= MaxHeightsSize
    /\ \E s \in HeightSections(MaxHeightsSize - TotalSize(sections.entries)) :
          /\ sections' = [sections EXCEPT
                          !.entries = Append(@, [id |-> SectionIds[Len(sections.entries) + 1],
                                                 section |-> s]),
                          !.inserted = Append(@, SectionIds[Len(sections.entries) + 1])]
    /\ UNCHANGED <<walk, writes, pc, error, examined, passed, calculated, heap, returned, result>>

NextHeights ==
    \/ AddHeightSection
    \/ Construct
    \/ GetY
    \/ GetHeight
    \/ GetTotalHeight

SpecHeights == Init /\ [][NextHeights]_vars

NextNumbers ==
    \/ AddNumberSection
    \/ Construct
    \/ GetHeight

SpecNumbers == Init /\ [][NextNumbers]_vars

\* --------------------------------------------------- construction alone
NextConstruct ==
    \/ AddSection
    \/ Construct

SpecConstruct == Init /\ [][NextConstruct]_vars

\* -------------------------------------- construction alone, larger mappings
\* mappings whose sections refer to the first section id only
AddSectionValidation == AddSectionWithin(MaxValidationSize, {SectionIds[1]})
AddIndexSection == AddIndexSectionWithin(MaxValidationSize, {SectionIds[1]})

NextValidation ==
    \/ AddSectionValidation
    \/ AddIndexSection
    \/ Construct

SpecValidation == Init /\ [][NextValidation]_vars

\* ------------------------------------------- all five queries together
AddSectionQueries == AddSectionWithin(MaxQuerySize, RefIds)

NextQueries ==
    \/ AddSectionQueries
    \/ Construct
    \/ GetY
    \/ GetHeight
    \/ GetTotalHeight
    \/ HasSection
    \/ GetAll

SpecQueries == Init /\ [][NextQueries]_vars

\* ------------------------------------------- the owner of the mapping
\* this.sections is the caller's object (line 75), which the caller can go
\* on writing to after the constructor returned.
\* The values written: a section with a literal height, or no object at all.
OwnerSections == {NotObject} \cup {SectionConfig(<<h>>, <<>>, Null) : h \in 0..MaxHeight}

\* sections[id] = s for a key it has
OwnerSetSection ==
    /\ pc = "ready"
    /\ writes < MaxOwnerWrites
    /\ writes' = writes + 1
    /\ \E i \in 1..Len(sections.entries) : \E s \in OwnerSections :
          /\ s # sections.entries[i].section
          /\ sections' = [sections EXCEPT !.entries[i].section = s]
    /\ result' = [NoResult EXCEPT !.op = "owner"]
    /\ UNCHANGED <<walk, pc, error, examined, passed, calculated, heap, returned>>

\* delete sections[id]
OwnerDeleteSection ==
    /\ pc = "ready"
    /\ writes < MaxOwnerWrites
    /\ writes' = writes + 1
    /\ \E i \in 1..Len(sections.entries) :
          sections' = [sections EXCEPT
                          !.entries = SubSeq(@, 1, i - 1) \o SubSeq(@, i + 1, Len(@)),
                          !.inserted = SelectSeq(@, LAMBDA id : id # sections.entries[i].id)]
    /\ result' = [NoResult EXCEPT !.op = "owner"]
    /\ UNCHANGED <<walk, pc, error, examined, passed, calculated, heap, returned>>

\* sections[id] = s for a key it does not have
OwnerAddSection ==
    /\ pc = "ready"
    /\ writes < MaxOwnerWrites
    /\ writes' = writes + 1
    /\ \E id \in KeyIds \ Keys(sections.entries) : \E s \in OwnerSections :
          sections' = [sections EXCEPT !.entries = Append(@, [id |-> id, section |-> s]),
                                       !.inserted = Append(@, id)]
    /\ result' = [NoResult EXCEPT !.op = "owner"]
    /\ UNCHANGED <<walk, pc, error, examined, passed, calculated, heap, returned>>

AddSectionOwner == AddSectionWithin(MaxOwnerSize, KeyIds)

NextOwner ==
    \/ AddSectionOwner
    \/ Construct
    \/ OwnerSetSection
    \/ OwnerDeleteSection
    \/ OwnerAddSection

SpecOwner == Init /\ [][NextOwner]_vars

\* ------------------------------------------------- callers of getAll()
\* What a caller can do with an object getAll() returned: it is an ordinary
\* mutable object whose values are the position records themselves.
ClientValue == MaxHeight * MaxSize + 1

\* returned[i][id].y = v  or  returned[i][id].height = v
ClientSetField ==
    /\ writes < MaxWrites
    /\ writes' = writes + 1
    /\ pc = "ready"
    /\ \E i \in 1..Len(returned) : \E id \in DOMAIN returned[i] : \E field \in {"y", "height"} :
          heap' = [heap EXCEPT ![returned[i][id]] =
                      IF field = "y" THEN [@ EXCEPT !.y = ClientValue]
                      ELSE [@ EXCEPT !.height = ClientValue]]
    /\ result' = [NoResult EXCEPT !.op = "client"]
    /\ UNCHANGED <<walk, sections, pc, error, examined, passed, calculated, returned>>

\* delete returned[i][id]
ClientDeleteKey ==
    /\ writes < MaxWrites
    /\ writes' = writes + 1
    /\ pc = "ready"
    /\ \E i \in 1..Len(returned) : \E id \in DOMAIN returned[i] :
          returned' = [returned EXCEPT ![i] = [k \in (DOMAIN @) \ {id} |-> @[k]]]
    /\ result' = [NoResult EXCEPT !.op = "client"]
    /\ UNCHANGED <<walk, sections, pc, error, examined, passed, calculated, heap>>

\* returned[i][id] = { y: v, height: v } for an id it does not hold
ClientAddKey ==
    /\ writes < MaxWrites
    /\ writes' = writes + 1
    /\ pc = "ready"
    /\ \E i \in 1..Len(returned) : \E id \in QueryIds \ DOMAIN returned[i] :
          LET a == Cardinality(DOMAIN heap) + 1
          IN  /\ heap' = (a :> [y |-> ClientValue, height |-> ClientValue]) @@ heap
              /\ returned' = [returned EXCEPT ![i] = (id :> a) @@ @]
    /\ result' = [NoResult EXCEPT !.op = "client"]
    /\ UNCHANGED <<walk, sections, pc, error, examined, passed, calculated>>

\* callers that pass mappings whose references are section ids of the model
AddSectionClient == AddSectionWithin(MaxClientSize, KeyIds)

NextClient ==
    \/ AddSectionClient
    \/ Construct
    \/ GetAll
    \/ ClientSetField
    \/ ClientDeleteKey
    \/ ClientAddKey

SpecClient == Init /\ [][NextClient]_vars

\* ===================================================================
\* Properties.  The vocabulary below states the layout rules directly
\* on the configuration, without the traversals of the implementation.
\* ===================================================================
Entries == sections.entries
ConfigKeys == Keys(Entries)
ConfigOf(id) == Entries[CHOOSE i \in 1..Len(Entries) : Entries[i].id = id].section

Position(id) == heap[calculated[id]]

Constructed == pc = "ready"
Finished == pc \in {"ready", "thrown"}
AllChecks == <<"validate", "detect", "references">>

\* rules 1-5 of per-section validation
SectionOk(s) ==
    /\ s.obj
    /\ s.hasHeight # s.hasRel
    /\ s.hasHeight => s.height >= 0
    /\ s.hasRel => (s.heightRel # <<>> /\ Blank \notin Range(s.heightRel))
    /\ s.from \notin {Undef, Blank}

AllSectionsOk == \A i \in 1..Len(Entries) : SectionOk(Entries[i].section)

\* the ids a section refers to, and those of them that are sections of the mapping
RefsOf(s) == (IF s.obj /\ s.from \notin {Null, Undef, Blank} THEN {s.from} ELSE {})
             \cup (IF s.obj THEN Range(s.heightRel) \ {Blank} ELSE {})
DepsOf(id) == RefsOf(ConfigOf(id)) \cap ConfigKeys

\* ids reachable from id along one or more dependency edges
RECURSIVE ReachFrom(_, _)
ReachFrom(frontier, seen) ==
    LET next == (UNION {DepsOf(x) : x \in frontier}) \ seen
    IN  IF next = {} THEN seen ELSE ReachFrom(next, seen \cup next)
Reachable(id) == ReachFrom({id}, {})

HasCycle == \E id \in ConfigKeys : id \in Reachable(id)
HasMissingReference == \E i \in 1..Len(Entries) : RefsOf(Entries[i].section) \ ConfigKeys # {}

RECURSIVE SumOfHeights(_, _)
SumOfHeights(heightRel, i) ==
    IF i > Len(heightRel) THEN 0
    ELSE Position(heightRel[i]).height + SumOfHeights(heightRel, i + 1)

\* C1: in every constructed instance each computed section has y = 0 when its
\* from is null (or absent), and otherwise y = y(from) + height(from), with
\* the from target's final computed values; as this holds of every computed
\* section, it holds along every from chain up to its root.
C1_YFollowsFrom ==
    Constructed =>
        \A id \in DOMAIN calculated :
            LET from == SectionAt(Entries, id).from
            IN  IF from \in {Null, Undef}
                THEN Position(id).y = 0
                ELSE /\ from \in DOMAIN calculated
                     /\ Position(id).y = Position(from).y + Position(from).height

\* a constructed chain x -> y -> z of from references with non-zero offsets
C1_Witness ==
    /\ Constructed
    /\ \E x, y \in ConfigKeys :
          /\ ConfigOf(x).from = y
          /\ ConfigOf(y).from \in ConfigKeys
          /\ Position(y).y > 0
          /\ Position(x).y > Position(y).y

\* C2: in every constructed instance each section that uses heightRel has
\* height equal to the sum of the final computed heights of the sections its
\* heightRel lists, also when a listed section itself uses heightRel.
C2_HeightRelIsSum ==
    Constructed =>
        \A id \in ConfigKeys :
            ConfigOf(id).hasRel =>
                /\ Range(ConfigOf(id).heightRel) \subseteq DOMAIN calculated
                /\ Position(id).height = SumOfHeights(ConfigOf(id).heightRel, 1)

\* a constructed section whose heightRel lists a section that uses heightRel too
C2_Witness ==
    /\ Constructed
    /\ \E x, y \in ConfigKeys :
          /\ ConfigOf(x).hasRel /\ ConfigOf(y).hasRel
          /\ y \in Range(ConfigOf(x).heightRel)
          /\ Position(y).height > 0
          /\ Position(x).height > Position(y).height

\* C3 as claimed: construction on any configuration whose dependency graph
\* has a cycle ends in CircularDependencyError.
C3_AnyCycleThrowsCircular ==
    (Finished /\ sections.type = "object" /\ HasCycle) =>
        (pc = "thrown" /\ error.name = "CircularDependencyError")

\* C3, amended: construction on a configuration whose sections all pass
\* per-section validation and whose dependency graph has a cycle (from
\* edges, heightRel edges, both, a self-reference, or a cycle the first
\* section does not reach) throws CircularDependencyError: it never gets
\* past cycle detection.
C3_ValidCycleThrowsCircular ==
    (pc \notin {"new", "validate", "detect"} /\ AllSectionsOk /\ HasCycle) =>
        (pc = "thrown" /\ error.name = "CircularDependencyError")

\* CircularDependencyError thrown for a cycle that does not involve, and is
\* not reachable from, the first section, and that uses a heightRel edge
C3_Witness ==
    /\ pc = "thrown" /\ error.name = "CircularDependencyError"
    /\ Len(Entries) >= 2
    /\ Reachable(Entries[1].id) = {}
    /\ \E x, y \in ConfigKeys :
          /\ x # y
          /\ y \in Range(ConfigOf(x).heightRel)
          /\ ConfigOf(y).from = x

\* C4 as claimed: a configuration that passes per-section validation, has no
\* cycle and refers to an id that is no key of the mapping makes construction
\* throw MissingSectionError naming the referencing and the missing id.
C4_MissingReferenceThrows ==
    (Finished /\ sections.type = "object" /\ AllSectionsOk /\ ~HasCycle /\ HasMissingReference) =>
        /\ pc = "thrown"
        /\ error.name = "MissingSectionError"
        /\ Len(error.names) = 2
        /\ error.names[1] \in ConfigKeys
        /\ error.names[2] \in RefsOf(ConfigOf(error.names[1])) \ ConfigKeys

\* C5: construction throws SectionValidationError whenever some section has
\* neither height nor heightRel or has both: a configuration gets past
\* per-section validation only if every section has exactly one of the two.
C5_HeightXorHeightRel ==
    (pc \notin {"new", "validate"} /\ sections.type = "object"
       /\ \E i \in 1..Len(Entries) : Entries[i].section.hasHeight = Entries[i].section.hasRel) =>
        (pc = "thrown" /\ error.name = "SectionValidationError")

\* the error raised for a section with both, after an accepted section
C5_Witness ==
    /\ pc = "thrown" /\ error.name = "SectionValidationError"
    /\ Len(Entries) >= 2
    /\ SectionOk(Entries[1].section)
    /\ error.sectionId = Entries[2].id
    /\ Entries[2].section.hasHeight /\ Entries[2].section.hasRel

C8_ChecksBeforeCalculation ==
    /\ (pc \in {"calculate", "ready"} \/ calculated # EmptyMap) =>
          /\ error = NoError
          /\ passed = AllChecks
          /\ examined = ObjectKeys(Entries)
          /\ AllSectionsOk /\ ~HasCycle
    /\ error # NoError => (pc = "thrown" /\ calculated = EmptyMap /\ heap = EmptyMap)
    /\ pc = "thrown" => (error # NoError /\ passed # AllChecks)

\* a failure of the last check, reference validation, after the two checks
\* before it passed: no position was computed
C8_Witness ==
    /\ pc = "thrown" /\ error.name = "MissingSectionError"
    /\ passed = <<"validate", "detect">>
    /\ calculated = EmptyMap

\* C9: construction with a mapping that is missing, not an object, or has no
\* sections throws the generic SectionStackError, none of its subclasses,
\* and validateSection has not been called on anything.
C9_NoMappingThrowsGeneric ==
    /\ (pc # "new" /\ sections.type # "object") =>
          (pc = "thrown" /\ error.name = "SectionStackError" /\ examined = <<>>)
    /\ (pc \notin {"new", "validate"} /\ sections.type = "object" /\ Entries = <<>>) =>
          (pc = "thrown" /\ error.name = "SectionStackError" /\ examined = <<>>)

\* the empty mapping, rejected by validate()
C9_Witness ==
    /\ pc = "thrown" /\ error.name = "SectionStackError"
    /\ sections.type = "object" /\ Entries = <<>>
    /\ error.message = "Sections configuration cannot be empty"

\* C10 as claimed: getY(id) and getHeight(id) return the stored y and height
\* when id has a computed position and throw the lookup error naming id when
\* it has none; they never throw for a key of the configuration.
C10_LookupReturnsOrThrows ==
    (Constructed /\ result.op \in {"getY", "getHeight"}) =>
        /\ result.id \in ConfigKeys => result.error = NoError
        /\ IF result.id \in DOMAIN calculated
           THEN /\ result.error = NoError /\ result.defined
                /\ result.value = IF result.op = "getY" THEN Position(result.id).y
                                  ELSE Position(result.id).height
           ELSE /\ result.error.name = "SectionStackError"
                /\ result.error.names = <<result.id>>

\* the id -> [y, height] map an object of position records stands for
Deref(obj) == [id \in DOMAIN obj |-> heap[obj[id]]]

\* C7 as claimed: whatever a caller does to the objects getAll() returned
\* (adding or removing an id, changing the y or height of a position record
\* inside), getY, getHeight, getTotalHeight and a later getAll() keep
\* returning what construction computed.
C7_ReturnedObjectsAreCopies ==
    Constructed =>
        /\ Deref(getAll(calculated)) = calculateAll(Entries)
        /\ \A id \in DOMAIN calculated :
              /\ getY(calculated, heap, id).value = calculateAll(Entries)[id].y
              /\ getHeight(calculated, heap, id).value = calculateAll(Entries)[id].height

\* the instance as it is immediately after construction from the mapping
FreshCalculated == AddressOf(topologicalSort(Entries))
FreshHeap == RecordsOf(topologicalSort(Entries), calculateAll(Entries))

\* C11: after construction the computed position map never changes under
\* queries: after any sequence of getY, getHeight, getTotalHeight, getAll and
\* hasSection calls (throwing ones included) the instance holds the map
\* construction computed, every object getAll() returned holds it too, and the
\* last call returned what the same call returns immediately after
\* construction.
C11_QueriesKeepResults ==
    Constructed =>
        /\ calculated = FreshCalculated /\ heap = FreshHeap
        /\ \A i \in 1..Len(returned) : Deref(returned[i]) = calculateAll(Entries)
        /\ result.op = "getY" => result = getY(FreshCalculated, FreshHeap, result.id)
        /\ result.op = "getHeight" => result = getHeight(FreshCalculated, FreshHeap, result.id)
        /\ result.op = "getTotalHeight" => result = getTotalHeight(FreshCalculated, FreshHeap)
        /\ result.op = "hasSection" => result = hasSection(FreshCalculated, result.id)

\* a lookup that throws, made after getAll() was called as often as the
\* model allows, on an instance whose layout is not all zeros
C11_Witness ==
    /\ Constructed
    /\ Len(returned) = MaxGetAll
    /\ result.op = "getY" /\ result.error # NoError
    /\ \E id \in DOMAIN calculated : Position(id).y > 0

\* what every query call returns in the current state
AllResults ==
    [getY |-> [id \in QueryIds |-> getY(calculated, heap, id)],
     getHeight |-> [id \in QueryIds |-> getHeight(calculated, heap, id)],
     getTotalHeight |-> getTotalHeight(calculated, heap),
     hasSection |-> [id \in QueryIds |-> hasSection(calculated, id)],
     getAll |-> Deref(getAll(calculated))]

\* C12: writes to the mapping that was passed to the constructor, made after
\* construction (a section replaced, added or removed), change the result of
\* no query: no step of a constructed instance changes what any call of
\* getY, getHeight, getTotalHeight, getAll or hasSection returns.
C12_ConfigWritesKeepResults ==
    [][Constructed => AllResults' = AllResults]_vars

\* the owner has changed a section's literal height in the mapping, and
\* getHeight returns the height computed at construction, not the new one
C12_Witness ==
    /\ Constructed
    /\ writes > 0
    /\ \E id \in ConfigKeys \cap DOMAIN calculated :
          /\ ConfigOf(id).hasHeight
          /\ getHeight(calculated, heap, id).value # ConfigOf(id).height

\* how the construction the state holds has ended
Outcome == [pc |-> pc, error |-> error, positions |-> [id \in DOMAIN calculated |-> Position(id)]]

IndicesOf(seq, id) == {i \in 1..Len(seq) : seq[i] = id}

\* C14: on a configuration that passed validate(), the sequence
\* topologicalSort returns contains every section id of the mapping exactly
\* once, and every section comes after its from target and after every
\* entry of its heightRel.
C14_SortedAfterDependencies ==
    pc \in {"calculate", "ready"} =>
        LET sorted == topologicalSort(Entries)
        IN  /\ \A id \in ConfigKeys : Cardinality(IndicesOf(sorted, id)) = 1
            /\ \A id \in ConfigKeys : \A ref \in RefsOf(ConfigOf(id)) :
                  \E i \in IndicesOf(sorted, ref) : \A j \in IndicesOf(sorted, id) : i < j

\* a validated configuration whose first section depends, through a from
\* and a heightRel edge, on sections put into the mapping after it
C14_Witness ==
    /\ pc = "calculate"
    /\ Len(Entries) = 3
    /\ ConfigOf(Entries[1].id).from = Entries[3].id
    /\ Entries[2].id \in Range(ConfigOf(Entries[3].id).heightRel)
    /\ topologicalSort(Entries) = <<Entries[2].id, Entries[3].id, Entries[1].id>>

\* C15: when a configuration whose sections all pass per-section validation
\* has both a cycle and a reference to an id that is not in the mapping,
\* construction reports the cycle: it throws CircularDependencyError and
\* never gets to MissingSectionError.
C15_CycleReportedBeforeMissing ==
    (pc \notin {"new", "validate", "detect"} /\ sections.type = "object"
       /\ AllSectionsOk /\ HasCycle /\ HasMissingReference) =>
        (pc = "thrown" /\ error.name = "CircularDependencyError"
           /\ passed = <<"validate">>)

\* CircularDependencyError thrown although the first section of the mapping,
\* which is on no cycle, has a missing reference that the reference pass
\* would report
C15_Witness ==
    /\ pc = "thrown" /\ error.name = "CircularDependencyError"
    /\ AllSectionsOk
    /\ validateReferences(Entries).name = "MissingSectionError"
    /\ validateReferences(Entries).sectionId = Entries[1].id
    /\ Entries[1].id \notin Range(error.names)

\* a cycle can be reached from id (id is on one, or leads to one)
ReachesCycle(id) == \E x \in {id} \cup Reachable(id) : x \in Reachable(x)

\* C16: the CircularDependencyError carries the id that closed the cycle and
\* the traversal path: the path starts at the id the traversal started at
\* (the first id of the mapping from which a cycle can be reached), follows
\* dependency edges from each id to the next without repeating an id, ends
\* at a section with an edge to the closing id, and contains the closing id.
C16_ErrorCarriesTraversalPath ==
    (pc = "thrown" /\ error.name = "CircularDependencyError") =>
        LET path == error.chain
            closing == error.sectionId
        IN  /\ Len(path) >= 1
            /\ Range(path) \subseteq ConfigKeys
            /\ \A i, j \in 1..Len(path) : i # j => path[i] # path[j]
            /\ \A i \in 1..(Len(path) - 1) : path[i + 1] \in DepsOf(path[i])
            /\ closing \in DepsOf(path[Len(path)])
            /\ closing \in Range(path)
            /\ ReachesCycle(path[1])
            /\ \A i \in 1..Len(Entries) :
                  ReachesCycle(Entries[i].id) => IndexOf(Entries, path[1]) <= i
            /\ error.names = Append(path, closing)

\* an error whose path leads into the cycle: it starts at a section that is
\* not on the cycle, and the closing id is not the id it started at
C16_Witness ==
    /\ pc = "thrown" /\ error.name = "CircularDependencyError"
    /\ Len(error.chain) >= 2
    /\ error.chain[1] # error.sectionId
    /\ error.chain[1] \notin Reachable(error.chain[1])

\* the five per-section rules, numbered as the layout rules number them:
\* section s violates rule n
Violates(n, s) ==
    CASE n = 1 -> ~s.obj
      [] n = 2 -> s.obj /\ s.hasHeight = s.hasRel
      [] n = 3 -> s.obj /\ s.hasHeight /\ s.height < 0
      [] n = 4 -> s.obj /\ s.hasRel /\ (s.heightRel = <<>> \/ Blank \in Range(s.heightRel))
      [] n = 5 -> s.obj /\ s.from \in {Undef, Blank}

\* the messages of rule n
RuleMessages(n) ==
    CASE n = 1 -> {"Section configuration must be an object"}
      [] n = 2 -> {"Section must have either height or heightRel property",
                   "Section cannot have both height and heightRel properties"}
      [] n = 3 -> {"Height must be a non-negative number"}
      [] n = 4 -> {"heightRel must be a non-empty array",
                   "heightRel entries must be non-empty strings"}
      [] n = 5 -> {"from property must be null or a non-empty string"}

ViolatedRules(s) == {n \in 1..5 : Violates(n, s)}
LowestViolated(s) == CHOOSE n \in ViolatedRules(s) : \A m \in ViolatedRules(s) : n <= m

Inserted == sections.inserted
Offenders == {i \in 1..Len(Inserted) : ~SectionOk(ConfigOf(Inserted[i]))}
FirstOffender == CHOOSE i \in Offenders : \A j \in Offenders : i <= j

\* C18 as claimed: the SectionValidationError construction throws names the
\* first section, in the insertion order of the mapping, that violates a
\* per-section rule, and no section inserted after that one is examined.
C18_FirstOffenderInInsertionOrder ==
    (pc = "thrown" /\ error.name = "SectionValidationError") =>
        /\ error.sectionId = Inserted[FirstOffender]
        /\ \A j \in (FirstOffender + 1)..Len(Inserted) : Inserted[j] \notin Range(examined)

\* the permutations of 1..n, and a sequence rearranged by one
PermutationsOf(n) == {p \in [1..n -> 1..n] : \A i, j \in 1..n : i # j => p[i] # p[j]}
Permuted(seq, p) == [i \in 1..Len(seq) |-> seq[p[i]]]

\* the mapping with the heightRel of its k-th section rearranged by p
WithHeightRelPermuted(entries, k, p) ==
    [entries EXCEPT ![k].section.heightRel = Permuted(@, p)]

\* C19 as claimed: permuting the entries of a section's heightRel list
\* changes nothing of the computed layout: for every constructed mapping and
\* every rearrangement of one section's heightRel, the rearranged mapping
\* computes the same y and height for every section.
C19_HeightRelOrderIrrelevant ==
    Constructed =>
        \A k \in 1..Len(Entries) :
            \A p \in PermutationsOf(Len(Entries[k].section.heightRel)) :
                calculateAll(WithHeightRelPermuted(Entries, k, p)) = calculateAll(Entries)

\* the positions computed before the i-th section of the order is processed
PositionsBefore(sortedSections, i) ==
    calculateFrom(Entries, SubSeq(sortedSections, 1, i - 1), 1, EmptyMap)

\* C20: in the computation pass over a configuration that passed validate(),
\* when a section is processed its from target (if it has one) and every
\* entry of its heightRel have a computed position already, so neither
\* fallback is taken: not y = 0 for a from target without a position, not
\* the contribution 0 for a listed section that has neither a literal height
\* nor a position.
C20_DependenciesComputedFirst ==
    pc \in {"calculate", "ready"} =>
        LET sorted == topologicalSort(Entries)
        IN  \A i \in 1..Len(sorted) :
               LET section == SectionAt(Entries, sorted[i])
                   positions == PositionsBefore(sorted, i)
               IN  /\ Truthy(section.from) =>
                         /\ section.from \in DOMAIN positions
                         /\ PositionTruthy(positions, section.from)
                   /\ \A j \in 1..Len(section.heightRel) :
                         /\ section.heightRel[j] \in DOMAIN positions
                         /\ \/ SectionAt(Entries, section.heightRel[j]).hasHeight
                            \/ PositionTruthy(positions, section.heightRel[j])

\* a constructed mapping whose first section is placed below, and sums, a
\* section that comes later in the mapping and itself sums a still later one
C20_Witness ==
    /\ Constructed
    /\ Len(Entries) = 3
    /\ Entries[1].section.from = Entries[2].id
    /\ Entries[2].id \in Range(Entries[1].section.heightRel)
    /\ Entries[3].id \in Range(Entries[2].section.heightRel)
    /\ Position(Entries[1].id).y > 0

\* the computed positions of the instance, as a map from id to [y, height]
ComputedPositions == [id \in DOMAIN calculated |-> Position(id)]

\* the heightRel sum taken over computed position heights only
RECURSIVE reduceComputedHeights(_, _, _, _)
reduceComputedHeights(positions, heightRel, i, sum) ==
    IF i > Len(heightRel) THEN sum
    ELSE reduceComputedHeights(positions, heightRel, i + 1,
            Plus(sum, PositionHeight(positions, heightRel[i])))

\* C21: in every constructed instance the computed height of a section with
\* a literal height is that literal, and so the heightRel rule (the listed
\* section's literal height if it has one, else its computed height) gives,
\* for every section that uses heightRel, the same sum as adding up the
\* computed heights of all listed sections; that sum is the section's height.
C21_LiteralIsComputedHeight ==
    Constructed =>
        \A id \in ConfigKeys :
            LET section == ConfigOf(id)
            IN  /\ section.hasHeight => Position(id).height = section.height
                /\ section.hasRel =>
                      /\ reduceHeightRel(Entries, ComputedPositions, section.heightRel, 1, 0)
                            = reduceComputedHeights(ComputedPositions, section.heightRel, 1, 0)
                      /\ Position(id).height
                            = reduceComputedHeights(ComputedPositions, section.heightRel, 1, 0)

\* a constructed section that sums a section with a non-zero literal height
\* and a section that uses heightRel itself
C21_Witness ==
    /\ Constructed
    /\ \E x, y, z \in ConfigKeys :
          /\ ConfigOf(x).hasRel
          /\ {y, z} \subseteq Range(ConfigOf(x).heightRel)
          /\ ConfigOf(y).hasHeight /\ ConfigOf(y).height > 0
          /\ ConfigOf(z).hasRel
          /\ Position(x).height > Position(y).height

\* C22 as claimed: in a constructed instance hasSection(id) is true exactly
\* for the keys of the configuration, and exactly for the ids on which getY
\* and getHeight do not throw; the keys of getAll() are the keys of the
\* configuration.
C22_HasSectionIffConfigKey ==
    Constructed =>
        /\ result.op = "hasSection" => (result.flag <=> result.id \in ConfigKeys)
        /\ \A id \in QueryIds :
              /\ hasSection(calculated, id).flag <=> getY(calculated, heap, id).error = NoError
              /\ hasSection(calculated, id).flag <=> getHeight(calculated, heap, id).error = NoError
        /\ DOMAIN getAll(calculated) = ConfigKeys

\* C23: a section whose height is 0 passes the height rule and, in a
\* constructed instance, has computed height 0, so every section placed from
\* it has the same y as it; a mapping with a section whose height is negative
\* makes construction throw SectionValidationError.
C23_ZeroAcceptedNegativeRejected ==
    /\ \A i \in 1..Len(Entries) :
          LET section == Entries[i].section
          IN  (section.obj /\ section.hasHeight /\ section.height = 0 /\ ~section.hasRel
                  /\ (section.from = Null \/ Truthy(section.from)))
                 => validateSection(Entries[i].id, section) = NoError
    /\ Constructed =>
          \A id \in ConfigKeys :
             (ConfigOf(id).hasHeight /\ ConfigOf(id).height = 0) =>
                 /\ Position(id).height = 0
                 /\ \A x \in ConfigKeys :
                       ConfigOf(x).from = id => Position(x).y = Position(id).y
    /\ (/\ pc \notin {"new", "validate"}
        /\ sections.type = "object"
        /\ \E i \in 1..Len(Entries) :
              /\ Entries[i].section.obj
              /\ Entries[i].section.hasHeight
              /\ Entries[i].section.height < 0)
          => (pc = "thrown" /\ error.name = "SectionValidationError")

\* a constructed instance with a section of height 0 that lies below the top
\* and a section placed from it, at the same y
C23_Witness ==
    /\ Constructed
    /\ \E x, id \in ConfigKeys :
          /\ ConfigOf(id).hasHeight /\ ConfigOf(id).height = 0
          /\ ConfigOf(x).from = id
          /\ Position(id).y > 0
          /\ Position(x).y = Position(id).y

\* a mapping with a section of negative height, rejected
C23_WitnessNegative ==
    /\ pc = "thrown" /\ error.name = "SectionValidationError"
    /\ \E i \in 1..Len(Entries) :
          /\ Entries[i].section.hasHeight /\ Entries[i].section.height < 0
          /\ error.sectionId = Entries[i].id

\* C24 as claimed: construction succeeds if and only if the mapping is a
\* non-empty object, every section passes the per-section rules, every from
\* and heightRel entry names a key of the mapping and the dependency graph
\* has no cycle; otherwise it throws one of the four kinds of error.
C24_SucceedsIffValid ==
    Finished =>
        /\ Constructed <=>
              /\ sections.type = "object"
              /\ Len(Entries) > 0
              /\ AllSectionsOk
              /\ ~HasMissingReference
              /\ ~HasCycle
        /\ ~Constructed =>
              /\ pc = "thrown"
              /\ error.name \in {"SectionStackError", "SectionValidationError",
                                 "CircularDependencyError", "MissingSectionError"}

\* C26: construction of a mapping whose dependency graph has no cycle never
\* throws CircularDependencyError, also when a section is reachable along
\* several paths: as the from target of two sections, or through a from edge
\* and a heightRel edge of the same section.
C26_NoFalseCycleAlarm ==
    (Finished /\ sections.type = "object" /\ ~HasCycle) =>
        error.name # "CircularDependencyError"

\* a constructed mapping in which one section is the from target of two
\* sections and is also listed in the heightRel of one of them
C26_Witness ==
    /\ Constructed
    /\ \E x, y, z \in ConfigKeys :
          /\ x # y /\ x # z /\ y # z
          /\ ConfigOf(x).from = z /\ ConfigOf(y).from = z
          /\ z \in Range(ConfigOf(x).heightRel)
          /\ "detect" \in Range(passed)

\* the mapping with its sections rearranged by p
Reordered(p) ==
    [type |-> "object", entries |-> Permuted(Entries, p), inserted |-> Permuted(Inserted, p)]

\* getTotalHeight() of an instance whose computed positions are positions
TotalOf(order, positions) ==
    getTotalHeight(AddressOf(order), RecordsOf(order, positions)).value

\* C27: the computed layout of a constructed mapping does not depend on the
\* order of the sections in the mapping: every rearrangement of the mapping
\* is constructed too, with the same y and height for every section id and
\* the same getTotalHeight().
C27_InsertionOrderIrrelevant ==
    Constructed =>
        \A p \in PermutationsOf(Len(Entries)) :
            LET other == construct(Reordered(p))
            IN  /\ other.pc = "ready"
                /\ other.positions = ComputedPositions
                /\ TotalOf(topologicalSort(Reordered(p).entries), other.positions)
                      = getTotalHeight(calculated, heap).value

\* a constructed mapping of three sections, the first placed from the second
\* and the second summing the third, with non-zero offsets: the computation
\* pass runs in another order than the mapping and than its reverse
C27_Witness ==
    /\ Constructed
    /\ Len(Entries) = 3
    /\ Entries[1].section.from = Entries[2].id
    /\ Entries[3].id \in Range(Entries[2].section.heightRel)
    /\ Position(Entries[1].id).y > 0
    /\ topologicalSort(Entries) # ObjectKeys(Entries)
    /\ \E p \in PermutationsOf(3) :
          topologicalSort(Reordered(p).entries) # topologicalSort(Entries)

\* C28: a mapping that has both a section violating a per-section rule and a
\* dependency cycle makes construction throw SectionValidationError, with
\* no check of validate() completed, wherever in the mapping the violating
\* section and the sections of the cycle stand.
C28_ValidationBeforeCycles ==
    (/\ pc \notin {"new", "validate"}
     /\ sections.type = "object"
     /\ ~AllSectionsOk
     /\ HasCycle)
        => /\ pc = "thrown"
           /\ error.name = "SectionValidationError"
           /\ passed = <<>>

\* a rejected mapping whose first section is on a cycle and passes the
\* per-section rules, the violating section coming after it
C28_Witness ==
    /\ pc = "thrown" /\ error.name = "SectionValidationError"
    /\ Len(Entries) >= 2
    /\ SectionOk(Entries[1].section)
    /\ Entries[1].id \in Reachable(Entries[1].id)
    /\ error.sectionId # Entries[1].id
    /\ error.sectionId \notin Reachable(Entries[1].id)

\* a rejected mapping whose first section violates a rule and whose later
\* sections form a cycle
C28_WitnessViolationFirst ==
    /\ pc = "thrown" /\ error.name = "SectionValidationError"
    /\ Len(Entries) >= 2
    /\ error.sectionId = Entries[1].id
    /\ Entries[1].id \notin Reachable(Entries[2].id)
    /\ Entries[2].id \in Reachable(Entries[2].id)

\* how often id occurs in the list
Occurrences(heightRel, id) == Cardinality({i \in 1..Len(heightRel) : heightRel[i] = id})

\* the sum over the distinct ids of the list of occurrences times computed height
RECURSIVE WeightedHeights(_, _)
WeightedHeights(heightRel, ids) ==
    IF ids = {} THEN 0
    ELSE LET id == CHOOSE x \in ids : TRUE
         IN  Occurrences(heightRel, id) * Position(id).height
                + WeightedHeights(heightRel, ids \ {id})

\* C30: a mapping whose heightRel lists name an id more than once is not
\* rejected for that, and in a constructed instance an id that occurs k
\* times in a section's heightRel adds k times its computed height to that
\* section's height.
C30_DuplicatesCountEach ==
    /\ \A i \in 1..Len(Entries) :
          LET section == Entries[i].section
          IN  (section.obj /\ ~section.hasHeight /\ section.hasRel
                  /\ section.heightRel # <<>> /\ Blank \notin Range(section.heightRel)
                  /\ (section.from = Null \/ Truthy(section.from)))
                 => validateSection(Entries[i].id, section) = NoError
    /\ Constructed =>
          \A id \in ConfigKeys :
             ConfigOf(id).hasRel =>
                 Position(id).height
                    = WeightedHeights(ConfigOf(id).heightRel, Range(ConfigOf(id).heightRel))

\* a constructed section that lists a section of non-zero height twice and
\* another one once
C30_Witness ==
    /\ Constructed
    /\ \E x, y, z \in ConfigKeys :
          /\ y # z
          /\ Occurrences(ConfigOf(x).heightRel, y) = 2
          /\ Occurrences(ConfigOf(x).heightRel, z) = 1
          /\ Position(y).height > 0
          /\ Position(x).height = 2 * Position(y).height + Position(z).height

\* x is a number and x >= 0
NonNegative(x) == x # NaN /\ x >= 0

\* C29 as claimed: in every constructed instance every section has
\* height >= 0 and y >= 0, getTotalHeight() >= 0, and so is every number
\* getY, getHeight and getTotalHeight return.
C29_ComputedValuesNonNegative ==
    Constructed =>
        /\ \A id \in DOMAIN calculated :
              NonNegative(Position(id).height) /\ NonNegative(Position(id).y)
        /\ NonNegative(getTotalHeight(calculated, heap).value)
        /\ (result.op \in {"getY", "getHeight", "getTotalHeight"} /\ result.defined)
              => NonNegative(result.value)

\* the traversal is at the return of a visit() of detectCircularDependencies
Leaving ==
    /\ pc = "detect"
    /\ walk.stack # <<>>
    /\ Top.at = EdgesOf(SectionAt(Entries, Top.id)) + 1

\* C25: construction terminates on every mapping, cyclic or not.  Followed
\* call by call, under the fairness of a constructor that runs on while it
\* can: the constructor eventually returns or throws; a section that cycle
\* detection finishes is in progress and has not been finished before; no
\* section is in progress or on the call stack twice, so the stack is never
\* deeper than the number of ids plus the call that throws; and
\* topologicalSort is entered only for a mapping without a cycle.
C25_ConstructionTerminates ==
    /\ <>Finished
    /\ [](Leaving => (Top.id \in walk.visiting /\ Top.id \notin walk.visited))
    /\ [](pc = "detect" => Len(walk.stack) <= Cardinality(RefIds) + 1)
    /\ [](pc = "calculate" => ~HasCycle)

\* cycle detection has thrown on a cycle of two sections: the call stack
\* holds three calls of visit(), the last one for the section it started at
C25_Witness ==
    /\ pc = "thrown"
    /\ error.name = "CircularDependencyError"
    /\ Len(walk.stack) = 3
    /\ Cardinality(walk.visiting) = 2
    /\ walk.stack[3].id = walk.stack[1].id

\* a constructed mapping whose traversals went three calls deep
C25_WitnessSorted ==
    /\ Constructed
    /\ Len(walk.sorted) = 3
    /\ \E x, y, z \in ConfigKeys :
          /\ x # y /\ y # z
          /\ y \in RefsOf(ConfigOf(x))
          /\ z \in RefsOf(ConfigOf(y))

\* followed call by call, the traversals give what the recursive functions give
StepsAgree ==
    /\ (pc = "thrown" /\ error.name = "CircularDependencyError")
          => error = detectCircularDependencies(Entries)
    /\ "detect" \in Range(passed) => detectCircularDependencies(Entries) = NoError
    /\ Constructed =>
          /\ walk.sorted = topologicalSort(Entries)
          /\ ComputedPositions = calculateAll(Entries)

====
